---- MODULE Spec2Model ----
(***************************************************************************)
(* TooN::WLS<Size, Precision, Decomposition> (3rdparty.old/TooN/wls.h):    *)
(* the weighted-least-squares accumulator.  Each accumulator owns          *)
(* my_C_inv, my_vector, my_decomposition and my_mu.  Precision is modelled *)
(* by exact integers (my_mu by exact fractions), Size by the Dynamic case, *)
(* where every shape is a run-time value.                                  *)
(***************************************************************************)
EXTENDS Integers, Sequences, FiniteSets, Bags, TLC

\* ------------------------------------------------------------------ bounds
\* The number of calls made on the accumulators in one behaviour.
MaxOps == 3

\* The accumulators of a behaviour: the combining one and a worker's.
Accs == {"a", "b"}
\* The dimensions an accumulator is constructed with.
Dims == {1, 2}
\* The number of measurements of a batch.
Ks == {1, 2}
\* What uninitialised storage may hold.
Garbage == {0, 7}

\* ---------------------------------------- Matrix / Vector container (TooN)
\* A vector is a sequence of numbers, a matrix a sequence of rows.
num_rows(M) == Len(M)
num_cols(M) == Len(M[1])

ZeroVector(len) == [i \in 1..len |-> 0]
ZeroMatrix(r, c) == [i \in 1..r |-> [j \in 1..c |-> 0]]

RECURSIVE SumSeq(_)
SumSeq(s) == IF s = <<>> THEN 0 ELSE s[1] + SumSeq(Tail(s))

Dot(u, v) == SumSeq([i \in 1..Len(u) |-> u[i] * v[i]])
Column(M, j) == [i \in 1..num_rows(M) |-> M[i][j]]
Transpose(M) == [j \in 1..num_cols(M) |-> Column(M, j)]
VecScale(v, s) == [i \in 1..Len(v) |-> v[i] * s]
VecAdd(u, v) == [i \in 1..Len(u) |-> u[i] + v[i]]
MatAdd(A, B) == [i \in 1..num_rows(A) |-> [j \in 1..num_cols(A) |-> A[i][j] + B[i][j]]]
\* as_col() * as_row()
Outer(u, v) == [i \in 1..Len(u) |-> [j \in 1..Len(v) |-> u[i] * v[j]]]
MatMul(A, B) == [i \in 1..num_rows(A) |-> [j \in 1..num_cols(B) |-> Dot(A[i], Column(B, j))]]
MatVec(A, v) == [i \in 1..num_rows(A) |-> Dot(A[i], v)]
SameShape(A, B) == num_rows(A) = num_rows(B) /\ num_cols(A) = num_cols(B)

\* ------------------------------------------------- exact fractions for mu
RECURSIVE Gcd(_, _)
Gcd(x, y) == IF y = 0 THEN x ELSE Gcd(y, x % y)
Abs(x) == IF x < 0 THEN -x ELSE x
\* p/q with q > 0, in lowest terms
Frac(p, q) == LET g == Gcd(Abs(p), Abs(q))
                  s == IF q < 0 THEN -1 ELSE 1
              IN <<(s * p) \div g, (s * q) \div g>>

\* ------------------------------------------------- Decomposition routine
Minor(M, r, c) ==
    [i \in 1..(num_rows(M) - 1) |->
        [j \in 1..(num_cols(M) - 1) |->
            M[IF i < r THEN i ELSE i + 1][IF j < c THEN j ELSE j + 1]]]

RECURSIVE Det(_)
Det(M) ==
    IF num_rows(M) = 1 THEN M[1][1]
    ELSE SumSeq([j \in 1..num_cols(M) |->
            (IF j % 2 = 1 THEN 1 ELSE -1) * M[1][j] * Det(Minor(M, 1, j))])

Leading(M, k) == [i \in 1..k |-> [j \in 1..k |-> M[i][j]]]
\* Sylvester's criterion on the matrix handed to the decomposition
PositiveDefinite(M) == \A k \in 1..num_rows(M) : Det(Leading(M, k)) > 0

ReplaceColumn(M, c, v) ==
    [i \in 1..num_rows(M) |-> [j \in 1..num_cols(M) |-> IF j = c THEN v[i] ELSE M[i][j]]]

\* compute(matrix): factorises, or fails when the matrix is not positive definite
decomposition_compute(M) == [ok |-> PositiveDefinite(M), mat |-> M]
\* backsub(vector): solves mat * x = v against the last factorisation
decomposition_backsub(dec, v) ==
    [i \in 1..Len(v) |-> Frac(Det(ReplaceColumn(dec.mat, i, v)), Det(dec.mat))]

\* ------------------------------------------------------------ class WLS
\* The outcome of a call: the accumulator it leaves and how it ended.
Ok(w) == [w |-> w, err |-> "ok"]
DimensionMismatch(w) == [w |-> w, err |-> "DimensionMismatch"]
NotPositiveDefinite(w) == [w |-> w, err |-> "NotPositiveDefinite"]

\* clear() that forgets my_vector
clear_C_inv_only(w) ==
    [w EXCEPT !.my_C_inv = ZeroMatrix(num_rows(@), num_cols(@))]

\* clear() that resets my_mu as well
clear_with_mu(w) ==
    [w EXCEPT !.my_C_inv = ZeroMatrix(num_rows(@), num_cols(@)),
              !.my_vector = ZeroVector(Len(@)),
              !.my_mu = [i \in 1..Len(w.my_vector) |-> <<0, 1>>]]

clear(w) ==
    [w EXCEPT !.my_C_inv = ZeroMatrix(num_rows(@), num_cols(@)),
              !.my_vector = ZeroVector(Len(@))]

\* The constructor allocates the four members without initialising them
\* (every entry holds some value g) and then calls clear().
WLS(size, g) ==
    clear([my_C_inv |-> [i \in 1..size |-> [j \in 1..size |-> g]],
           my_vector |-> [i \in 1..size |-> g],
           my_decomposition |-> [ok |-> FALSE, mat |-> ZeroMatrix(size, size)],
           my_mu |-> [i \in 1..size |-> <<g, 1>>]])

add_prior_scalar(w, val) ==
    Ok([w EXCEPT !.my_C_inv =
            [i \in 1..num_rows(@) |-> [j \in 1..num_cols(@) |->
                IF i = j THEN @[i][j] + val ELSE @[i][j]]]])

add_prior_vector(w, v) ==
    IF num_rows(w.my_C_inv) # Len(v) THEN DimensionMismatch(w)
    ELSE Ok([w EXCEPT !.my_C_inv =
            [i \in 1..num_rows(@) |-> [j \in 1..num_cols(@) |->
                IF i = j THEN @[i][j] + v[i] ELSE @[i][j]]]])

add_prior_matrix(w, m) ==
    IF ~SameShape(w.my_C_inv, m) THEN DimensionMismatch(w)
    ELSE Ok([w EXCEPT !.my_C_inv = MatAdd(@, m)])

\* single add_mJ that weights both factors of the outer product
add_mJ_single_weight_twice(w, m, J, weight) ==
    LET Jw == VecScale(J, weight)
        JwJ == Outer(Jw, Jw)
    IN  IF ~SameShape(w.my_C_inv, JwJ) THEN DimensionMismatch(w)
        ELSE LET w1 == [w EXCEPT !.my_C_inv = MatAdd(@, JwJ)]
                 mJw == VecScale(Jw, m)
             IN  IF Len(w1.my_vector) # Len(mJw) THEN DimensionMismatch(w1)
                 ELSE Ok([w1 EXCEPT !.my_vector = VecAdd(@, mJw)])

add_mJ_single(w, m, J, weight) ==
    LET Jw == VecScale(J, weight)
        JwJ == Outer(Jw, J)
    IN  IF ~SameShape(w.my_C_inv, JwJ) THEN DimensionMismatch(w)
        ELSE LET w1 == [w EXCEPT !.my_C_inv = MatAdd(@, JwJ)]
                 mJw == VecScale(Jw, m)
             IN  IF Len(w1.my_vector) # Len(mJw) THEN DimensionMismatch(w1)
                 ELSE Ok([w1 EXCEPT !.my_vector = VecAdd(@, mJw)])

\* batched add_mJ that adds J * m, not temp * m, to my_vector
add_mJ_batched_unweighted_vector(w, m, J, invcov) ==
    IF num_cols(J) # num_rows(invcov) THEN DimensionMismatch(w)
    ELSE LET temp == MatMul(J, invcov) IN
    IF num_cols(temp) # num_cols(J) THEN DimensionMismatch(w)
    ELSE LET tJT == MatMul(temp, Transpose(J)) IN
    IF ~SameShape(w.my_C_inv, tJT) THEN DimensionMismatch(w)
    ELSE LET w1 == [w EXCEPT !.my_C_inv = MatAdd(@, tJT)] IN
    IF num_cols(J) # Len(m) THEN DimensionMismatch(w1)
    ELSE LET tm == MatVec(J, m) IN
    IF Len(w1.my_vector) # Len(tm) THEN DimensionMismatch(w1)
    ELSE Ok([w1 EXCEPT !.my_vector = VecAdd(@, tm)])

\* batched add_mJ that multiplies temp by J, not by J.T()
add_mJ_batched_no_transpose(w, m, J, invcov) ==
    IF num_cols(J) # num_rows(invcov) THEN DimensionMismatch(w)
    ELSE LET temp == MatMul(J, invcov) IN
    IF num_cols(temp) # num_rows(J) THEN DimensionMismatch(w)
    ELSE LET tJ == MatMul(temp, J) IN
    IF ~SameShape(w.my_C_inv, tJ) THEN DimensionMismatch(w)
    ELSE LET w1 == [w EXCEPT !.my_C_inv = MatAdd(@, tJ)] IN
    IF num_cols(temp) # Len(m) THEN DimensionMismatch(w1)
    ELSE LET tm == MatVec(temp, m) IN
    IF Len(w1.my_vector) # Len(tm) THEN DimensionMismatch(w1)
    ELSE Ok([w1 EXCEPT !.my_vector = VecAdd(@, tm)])

add_mJ_batched(w, m, J, invcov) ==
    IF num_cols(J) # num_rows(invcov) THEN DimensionMismatch(w)
    ELSE LET temp == MatMul(J, invcov) IN
    IF num_cols(temp) # num_cols(J) THEN DimensionMismatch(w)
    ELSE LET tJT == MatMul(temp, Transpose(J)) IN
    IF ~SameShape(w.my_C_inv, tJT) THEN DimensionMismatch(w)
    ELSE LET w1 == [w EXCEPT !.my_C_inv = MatAdd(@, tJT)] IN
    IF num_cols(temp) # Len(m) THEN DimensionMismatch(w1)
    ELSE LET tm == MatVec(temp, m) IN
    IF Len(w1.my_vector) # Len(tm) THEN DimensionMismatch(w1)
    ELSE Ok([w1 EXCEPT !.my_vector = VecAdd(@, tm)])

\* compute() that resets the statistics once it has solved them
compute_then_clear(w) ==
    LET dec == decomposition_compute(w.my_C_inv)
        w1 == [w EXCEPT !.my_decomposition = dec]
    IN  IF ~dec.ok THEN NotPositiveDefinite(w1)
        ELSE Ok([w1 EXCEPT !.my_mu = decomposition_backsub(dec, w1.my_vector),
                           !.my_C_inv = ZeroMatrix(num_rows(@), num_cols(@)),
                           !.my_vector = ZeroVector(Len(@))])

\* compute() that swallows the decomposition's failure and stores a zero mu
compute_ignoring_failure(w) ==
    LET dec == decomposition_compute(w.my_C_inv)
        w1 == [w EXCEPT !.my_decomposition = dec]
    IN  IF ~dec.ok THEN Ok([w1 EXCEPT !.my_mu = [i \in 1..Len(w.my_vector) |-> <<0, 1>>]])
        ELSE Ok([w1 EXCEPT !.my_mu = decomposition_backsub(dec, w1.my_vector)])

compute(w) ==
    LET dec == decomposition_compute(w.my_C_inv)
        w1 == [w EXCEPT !.my_decomposition = dec]
    IN  IF ~dec.ok THEN NotPositiveDefinite(w1)
        ELSE Ok([w1 EXCEPT !.my_mu = decomposition_backsub(dec, w1.my_vector)])

\* operator+= that assigns my_vector instead of adding to it
operator_plus_eq_assigns_vector(ws, this, meas) ==
    LET ws1 == [ws EXCEPT ![this].my_vector = ws[meas].my_vector]
    IN  [ws1 EXCEPT ![this].my_C_inv = MatAdd(@, ws1[meas].my_C_inv)]

\* operator+= that moves: it clears meas once it has added it
operator_plus_eq_moves(ws, this, meas) ==
    LET ws1 == [ws EXCEPT ![this].my_vector = VecAdd(@, ws[meas].my_vector)]
        ws2 == [ws1 EXCEPT ![this].my_C_inv = MatAdd(@, ws1[meas].my_C_inv)]
    IN  [ws2 EXCEPT ![meas].my_C_inv = ZeroMatrix(num_rows(@), num_cols(@)),
                    ![meas].my_vector = ZeroVector(Len(@))]

\* this += meas.  ws maps every accumulator to its value; meas may be this.
operator_plus_eq(ws, this, meas) ==
    LET ws1 == [ws EXCEPT ![this].my_vector = VecAdd(@, ws[meas].my_vector)]
    IN  [ws1 EXCEPT ![this].my_C_inv = MatAdd(@, ws1[meas].my_C_inv)]

\* ------------------------------------------------------------------ state
VARIABLES
    wls,    \* the WLS objects: accumulator -> its four members
    err,    \* how the last call ended
    last,   \* the last call: [call, acc, input]
    log,    \* accumulator -> bag of the updates folded into it since it was cleared
    snap,   \* accumulator -> <<my_C_inv, my_vector>> at its last successful compute()
    solves, \* accumulator -> <<successful, failed>> compute() calls so far
    steps   \* the number of calls made

vars == <<wls, err, last, log, snap, solves, steps>>

size(a) == num_rows(wls[a].my_C_inv)

\* ----------------------------------------------------------------- inputs
Ones(len) == [i \in 1..len |-> 1]
Unit(len, k) == [i \in 1..len |-> IF i = k THEN 1 ELSE 0]
OnesMatrix(r, c) == [i \in 1..r |-> Ones(c)]
Diag(ws) == [i \in 1..Len(ws) |-> [j \in 1..Len(ws) |-> IF i = j THEN ws[i] ELSE 0]]

PriorVals == {1, 2}
\* vectors of the accumulator's length, and an all-ones vector of every other length
VectorInputs(n) == {Unit(n, 1), Ones(n)} \cup {Ones(len) : len \in Dims \ {n}}
\* <<m, J, weight>> of a single measurement; the last has a J of another length
SingleInputs(n) ==
    {<<3, Unit(n, 1), 1>>, <<1, Ones(n), 2>>} \cup {<<1, Ones(len), 1>> : len \in Dims \ {n}}
\* n-by-n priors: a one-sided one and its symmetric completion
MatrixInputs(n) ==
    {[i \in 1..n |-> [j \in 1..n |-> IF i = 1 /\ j = n THEN 1 ELSE 0]],
     [i \in 1..n |-> [j \in 1..n |-> IF {i, j} = {1, n} THEN 1 ELSE 0]]}
\* batches of k measurements with consistent shapes: column 1 of J is all ones,
\* column j > 1 the j-th unit vector
JMatrix(n, k) == [i \in 1..n |-> [j \in 1..k |-> IF j = 1 \/ i = j THEN 1 ELSE 0]]
MeasVec(k) == [i \in 1..k |-> IF i = 1 THEN 3 ELSE 1]
InvCovs(k) ==
    {Diag([i \in 1..k |-> i + 1]),
     [i \in 1..k |-> [j \in 1..k |-> IF i <= j THEN 1 ELSE 0]]}
GoodBatches(n) ==
    UNION {{<<MeasVec(k), JMatrix(n, k), ic>> : ic \in InvCovs(k)} : k \in Ks}
\* all-ones batches whose shapes disagree: in m only, in invcov, in J's rows
BadBatches(n) ==
    {<<Ones(km), OnesMatrix(n, k), OnesMatrix(k, k)>> : k \in {1}, km \in Ks \ {1}}
    \cup {<<Ones(k), OnesMatrix(n, k), OnesMatrix(kr, kr)>> : k \in {1}, kr \in Ks \ {1}}
    \cup {<<Ones(k), OnesMatrix(r, k), OnesMatrix(k, k)>> : k \in {1}, r \in Dims \ {n}}
BatchInputs(n) == GoodBatches(n) \cup BadBatches(n)

\* The combining accumulator takes every kind of call; a worker accumulates
\* scalar priors and single measurements, and is cleared, solved and merged.
Combiners == {"a"}

\* ------------------------------------------------------------------ ghost
Update(call, input) == [call |-> call, input |-> input]

\* what one logged update does to an accumulator
ApplyUpdate(w, u) ==
    CASE u.call = "add_prior_scalar" -> add_prior_scalar(w, u.input[1])
      [] u.call = "add_prior_vector" -> add_prior_vector(w, u.input[1])
      [] u.call = "add_prior_matrix" -> add_prior_matrix(w, u.input[1])
      [] u.call = "add_mJ_single" -> add_mJ_single(w, u.input[1], u.input[2], u.input[3])
      [] u.call = "add_mJ_batched" -> add_mJ_batched(w, u.input[1], u.input[2], u.input[3])

\* ---------------------------------------------------------------- actions
Init ==
    /\ \E n \in Dims, g \in Garbage : wls = [a \in Accs |-> WLS(n, g)]
    /\ err = "ok"
    /\ last = [call |-> "WLS", acc |-> "a", input |-> <<>>]
    /\ log = [a \in Accs |-> EmptyBag]
    /\ snap = [a \in Accs |-> <<>>]
    /\ solves = [a \in Accs |-> <<0, 0>>]
    /\ steps = 0

\* an add_prior / add_mJ call on accumulator a ending as r
Updated(a, u, r) ==
    /\ steps < MaxOps
    /\ wls' = [wls EXCEPT ![a] = r.w]
    /\ err' = r.err
    /\ last' = [call |-> u.call, acc |-> a, input |-> u.input]
    /\ log' = IF r.err = "ok" \/ r.w # wls[a]
              THEN [log EXCEPT ![a] = @ (+) SetToBag({u})]
              ELSE log
    /\ UNCHANGED <<snap, solves>>
    /\ steps' = steps + 1

Clear(a) ==
    /\ steps < MaxOps
    /\ wls' = [wls EXCEPT ![a] = clear(@)]
    /\ err' = "ok"
    /\ last' = [call |-> "clear", acc |-> a, input |-> <<>>]
    /\ log' = [log EXCEPT ![a] = EmptyBag]
    /\ UNCHANGED <<snap, solves>>
    /\ steps' = steps + 1

AddPriorScalar(a, val) ==
    Updated(a, Update("add_prior_scalar", <<val>>), add_prior_scalar(wls[a], val))

AddPriorVector(a, v) ==
    Updated(a, Update("add_prior_vector", <<v>>), add_prior_vector(wls[a], v))

AddPriorMatrix(a, m) ==
    Updated(a, Update("add_prior_matrix", <<m>>), add_prior_matrix(wls[a], m))

AddMJSingle(a, m, J, weight) ==
    Updated(a, Update("add_mJ_single", <<m, J, weight>>), add_mJ_single(wls[a], m, J, weight))

AddMJBatched(a, m, J, invcov) ==
    Updated(a, Update("add_mJ_batched", <<m, J, invcov>>), add_mJ_batched(wls[a], m, J, invcov))

Compute(a) ==
    LET r == compute(wls[a]) IN
    /\ steps < MaxOps
    /\ wls' = [wls EXCEPT ![a] = r.w]
    /\ err' = r.err
    /\ last' = [call |-> "compute", acc |-> a, input |-> <<>>]
    /\ snap' = IF r.err = "ok"
               THEN [snap EXCEPT ![a] = <<wls[a].my_C_inv, wls[a].my_vector>>]
               ELSE snap
    /\ solves' = [solves EXCEPT ![a] = IF r.err = "ok" THEN <<@[1] + 1, @[2]>>
                                                       ELSE <<@[1], @[2] + 1>>]
    /\ UNCHANGED log
    /\ steps' = steps + 1

Merge(this, meas) ==
    /\ steps < MaxOps
    /\ wls' = operator_plus_eq(wls, this, meas)
    /\ err' = "ok"
    /\ last' = [call |-> "operator_plus_eq", acc |-> this, input |-> <<meas>>]
    /\ log' = [log EXCEPT ![this] = @ (+) log[meas]]
    /\ UNCHANGED <<snap, solves>>
    /\ steps' = steps + 1

Next ==
    \/ \E a \in Accs : Clear(a)
    \/ \E a \in Accs, val \in PriorVals : AddPriorScalar(a, val)
    \/ \E a \in Combiners : \E v \in VectorInputs(size(a)) : AddPriorVector(a, v)
    \/ \E a \in Combiners : \E m \in MatrixInputs(size(a)) : AddPriorMatrix(a, m)
    \/ \E a \in Accs : \E s \in SingleInputs(size(a)) : AddMJSingle(a, s[1], s[2], s[3])
    \/ \E a \in Combiners : \E b \in BatchInputs(size(a)) : AddMJBatched(a, b[1], b[2], b[3])
    \/ \E a \in Accs : Compute(a)
    \/ \E this \in Accs, meas \in Accs : Merge(this, meas)

Spec == Init /\ [][Next]_vars

\* -------------------------------------------------------------- properties
C_inv(a) == wls[a].my_C_inv
vector(a) == wls[a].my_vector
mu(a) == wls[a].my_mu

\* The shapes of the call c disagree with an accumulator of dimension n.
ShapesDisagree(c, n) ==
    \/ c.call = "add_prior_vector" /\ Len(c.input[1]) # n
    \/ c.call = "add_mJ_single" /\ Len(c.input[2]) # n
    \/ /\ c.call = "add_mJ_batched"
       /\ ~ \E k \in Ks \cup {Len(c.input[1])} :
              /\ Len(c.input[1]) = k
              /\ num_rows(c.input[2]) = n /\ num_cols(c.input[2]) = k
              /\ num_rows(c.input[3]) = k /\ num_cols(c.input[3]) = k

\* C1: a call whose shapes disagree ends in DimensionMismatch and leaves
\* my_C_inv and my_vector of every accumulator as they were before the call.
C1_AllOrNothing ==
    [][ShapesDisagree(last', size(last'.acc))
          => /\ err' = "DimensionMismatch"
             /\ \A a \in Accs : C_inv(a)' = C_inv(a) /\ vector(a)' = vector(a)]_vars

\* The updates of bag B applied one after another to the accumulator w0,
\* in an order that depends on B alone.
RECURSIVE Direct(_, _)
Direct(B, w0) ==
    IF BagToSet(B) = {} THEN w0
    ELSE LET u == CHOOSE x \in BagToSet(B) : TRUE
         IN  ApplyUpdate(Direct(B (-) SetToBag({u}), w0), u).w

\* C2: however the updates were spread over the accumulators, in whatever
\* order they were applied and merged, an accumulator holds the my_C_inv and
\* my_vector that applying its updates directly to a cleared accumulator gives.
C2_MergeOrderIndependent ==
    \A a \in Accs :
        LET d == Direct(log[a], clear(wls[a]))
        IN  C_inv(a) = d.my_C_inv /\ vector(a) = d.my_vector

C2_Witness ==
    /\ last.call = "operator_plus_eq"
    /\ last.acc # last.input[1]
    /\ BagToSet(log[last.input[1]]) # {}
    /\ log[last.acc] # log[last.input[1]]
    /\ BagCardinality(log[last.acc]) >= 2
    /\ vector(last.acc) # ZeroVector(size(last.acc))

IsDiagonal(M) ==
    /\ num_rows(M) = num_cols(M)
    /\ \A i \in 1..num_rows(M), j \in 1..num_cols(M) : i # j => M[i][j] = 0

\* add_mJ(m[i], column i of J, invcov[i][i]) for i = 1..k, one after another
RECURSIVE SingleCalls(_, _, _, _, _)
SingleCalls(w, m, J, invcov, k) ==
    IF k = 0 THEN w
    ELSE add_mJ_single(SingleCalls(w, m, J, invcov, k - 1),
                       m[k], Column(J, k), invcov[k][k]).w

\* C3: a batched add_mJ(m, J, diag(w_1..w_k)) with J n-by-k and m of length k
\* leaves the my_C_inv and my_vector that k single add_mJ calls, one for each
\* column of J, give from the same state.
C3_SingleBatchedEquivalent ==
    [][(/\ last'.call = "add_mJ_batched"
        /\ ~ShapesDisagree(last', size(last'.acc))
        /\ IsDiagonal(last'.input[3]))
          => LET a == last'.acc
                 s == SingleCalls(wls[a], last'.input[1], last'.input[2],
                                  last'.input[3], Len(last'.input[1]))
             IN  /\ err' = "ok"
                 /\ wls'[a].my_C_inv = s.my_C_inv
                 /\ wls'[a].my_vector = s.my_vector]_vars

C3_Witness ==
    /\ last.call = "add_mJ_batched"
    /\ err = "ok"
    /\ Len(last.input[1]) = 2
    /\ size(last.acc) = 2
    /\ IsDiagonal(last.input[3])
    /\ last.input[3][1][1] # last.input[3][2][2]
    /\ steps >= 2
    /\ BagCardinality(log[last.acc]) >= 2

RECURSIVE Product(_)
Product(s) == IF s = <<>> THEN 1 ELSE s[1] * Product(Tail(s))

\* C * x = v, for x a vector of fractions
Solves(C, x, v) ==
    /\ Len(x) = Len(v)
    /\ LET den == Product([j \in 1..Len(x) |-> x[j][2]])
       IN  \A i \in 1..Len(v) :
               SumSeq([j \in 1..Len(x) |-> C[i][j] * x[j][1] * (den \div x[j][2])])
                   = v[i] * den

\* C4: compute() leaves my_C_inv and my_vector as they were, whether it
\* succeeds or fails; a successful compute() stores the mu that solves
\* my_C_inv * mu = my_vector for the statistics of that moment; a second
\* successful compute() right after a first stores the same mu.
C4_ComputePreservesAndRepeats ==
    [][last'.call = "compute"
          => LET a == last'.acc
             IN  /\ wls'[a].my_C_inv = wls[a].my_C_inv
                 /\ wls'[a].my_vector = wls[a].my_vector
                 /\ err' = "ok" =>
                        Solves(wls'[a].my_C_inv, wls'[a].my_mu, wls'[a].my_vector)
                 /\ (last.call = "compute" /\ last.acc = a /\ err = "ok" /\ err' = "ok")
                        => wls'[a].my_mu = wls[a].my_mu]_vars

C4_Witness ==
    /\ last.call = "compute"
    /\ err = "ok"
    /\ solves[last.acc][1] >= 2
    /\ vector(last.acc) # ZeroVector(size(last.acc))

Symmetric(M) ==
    \A i \in 1..num_rows(M), j \in 1..num_cols(M) : M[i][j] = M[j][i]

\* C5 as stated: my_C_inv is symmetric in every reachable state.
C5_AlwaysSymmetric == \A a \in Accs : Symmetric(C_inv(a))

SymmetricInput(u) ==
    /\ u.call = "add_prior_matrix" => Symmetric(u.input[1])
    /\ u.call = "add_mJ_batched" =>
           (num_rows(u.input[3]) = num_cols(u.input[3]) => Symmetric(u.input[3]))

\* C5 as amended: my_C_inv is symmetric whenever every matrix prior and every
\* batched invcov folded into the accumulator since it was cleared (by a call
\* or by a merge) was symmetric.
C5_SymmetricForSymmetricInputs ==
    \A a \in Accs :
        (\A u \in BagToSet(log[a]) : SymmetricInput(u)) => Symmetric(C_inv(a))

C5_Witness ==
    \E a \in Accs :
        /\ size(a) = 2
        /\ \A u \in BagToSet(log[a]) : SymmetricInput(u)
        /\ \E u \in BagToSet(log[a]) : u.call = "add_mJ_batched"
        /\ \E u \in BagToSet(log[a]) : u.call = "add_prior_matrix"
        /\ C_inv(a)[1][2] # 0
        /\ Symmetric(C_inv(a))

C7_DegenerateSystem ==
    [][last'.call = "compute"
          => LET a == last'.acc
                 n == num_rows(wls[a].my_C_inv)
             IN  /\ wls[a].my_C_inv = ZeroMatrix(n, n)
                      => err' = "NotPositiveDefinite" /\ wls'[a].my_mu = wls[a].my_mu
                 /\ (/\ last.call = "add_prior_scalar" /\ last.acc = a
                     /\ last.input[1] > 0
                     /\ log[a] = SetToBag({Update("add_prior_scalar", last.input)}))
                      => err' = "ok"]_vars

C7_Witness ==
    /\ last.call = "compute"
    /\ err = "ok"
    /\ solves[last.acc] = <<1, 1>>
    /\ BagCardinality(log[last.acc]) = 1
    /\ \E u \in BagToSet(log[last.acc]) : u.call = "add_prior_scalar"
    /\ steps = 3

\* The sum of f over the updates of bag B, each counted as often as it occurs.
RECURSIVE SumC(_, _, _, _)
SumC(S, B, i, j) ==
    IF S = {} THEN 0
    ELSE LET u == CHOOSE x \in S : TRUE
             t == IF u.call = "add_prior_scalar"
                  THEN (IF i = j THEN u.input[1] ELSE 0)
                  ELSE u.input[3] * u.input[2][i] * u.input[2][j]
         IN  B[u] * t + SumC(S \ {u}, B, i, j)

RECURSIVE SumV(_, _, _)
SumV(S, B, i) ==
    IF S = {} THEN 0
    ELSE LET u == CHOOSE x \in S : TRUE
             t == IF u.call = "add_prior_scalar" THEN 0
                  ELSE u.input[1] * u.input[3] * u.input[2][i]
         IN  B[u] * t + SumV(S \ {u}, B, i)

ScenarioLog ==
    SetToBag({Update("add_prior_scalar", <<1>>),
              Update("add_mJ_single", <<3, <<1, 0>>, 1>>)})

\* C8: an accumulator that has taken only scalar priors and single
\* measurements since it was cleared holds
\*   my_C_inv[i][j] = (sum of val if i = j) + sum of weight * J[i] * J[j],
\*   my_vector[i] = sum of m * weight * J[i];
\* no add_prior changes my_vector and the scalar one changes no off-diagonal
\* entry; add_prior(1), add_mJ(3, [1,0], 1) on n = 2 gives [[2,0],[0,1]],
\* [3,0] and compute() then gives mu = [3/2, 0].
C8_SumOfContributions ==
    /\ [](\A a \in Accs :
            LET S == BagToSet(log[a]) IN
            (\A u \in S : u.call \in {"add_prior_scalar", "add_mJ_single"})
                => /\ \A i, j \in 1..size(a) : C_inv(a)[i][j] = SumC(S, log[a], i, j)
                   /\ \A i \in 1..size(a) : vector(a)[i] = SumV(S, log[a], i))
    /\ [](\A a \in Accs :
            (size(a) = 2 /\ log[a] = ScenarioLog)
                => /\ C_inv(a) = <<<<2, 0>>, <<0, 1>>>>
                   /\ vector(a) = <<3, 0>>
                   /\ (last.call = "compute" /\ last.acc = a)
                        => err = "ok" /\ mu(a) = <<<<3, 2>>, <<0, 1>>>>)
    /\ [][last'.call \in {"add_prior_scalar", "add_prior_vector", "add_prior_matrix"}
            => LET a == last'.acc
               IN  /\ wls'[a].my_vector = wls[a].my_vector
                   /\ last'.call = "add_prior_scalar" =>
                        \A i, j \in 1..num_rows(wls[a].my_C_inv) :
                            wls'[a].my_C_inv[i][j] =
                                wls[a].my_C_inv[i][j] + (IF i = j THEN last'.input[1] ELSE 0)]_vars

C8_Witness ==
    /\ last.call = "compute"
    /\ err = "ok"
    /\ size(last.acc) = 2
    /\ log[last.acc] = ScenarioLog
    /\ mu(last.acc) = <<<<3, 2>>, <<0, 1>>>>

\* C9: only compute() changes my_mu, and only of its own accumulator; after a
\* successful compute() my_mu solves the normal equations of the my_C_inv
\* and my_vector of the latest successful compute(), whatever was called since.
C9_MuStaleNeverCleared ==
    /\ [](\A a \in Accs :
            snap[a] # <<>> => Solves(snap[a][1], mu(a), snap[a][2]))
    /\ [][\A a \in Accs :
            (last'.call # "compute" \/ last'.acc # a) => wls'[a].my_mu = wls[a].my_mu]_vars

C9_Witness ==
    \E a \in Accs :
        /\ snap[a] # <<>>
        /\ last.call = "clear"
        /\ last.acc = a
        /\ snap[a][2] # vector(a)
        /\ mu(a)[1][1] # 0

\* C10: this += meas with this # meas leaves meas as it was and adds its
\* my_C_inv and my_vector entry by entry to those of this; this += this
\* doubles my_C_inv and my_vector.
C10_MergeReadsItsArgument ==
    [][last'.call = "operator_plus_eq"
          => LET this == last'.acc
                 meas == last'.input[1]
             IN  /\ this # meas => wls'[meas] = wls[meas]
                 /\ wls'[this].my_C_inv = MatAdd(wls[this].my_C_inv, wls[meas].my_C_inv)
                 /\ wls'[this].my_vector = VecAdd(wls[this].my_vector, wls[meas].my_vector)
                 /\ wls'[this].my_mu = wls[this].my_mu]_vars

C10_Witness ==
    /\ last.call = "operator_plus_eq"
    /\ last.acc # last.input[1]
    /\ vector(last.input[1]) # ZeroVector(size(last.acc))
    /\ vector(last.acc) # vector(last.input[1])
    /\ steps = 3

====
